---- MODULE Spec2Model ----
(***************************************************************************)
(* Model of pickysettings: LazySettings (core/settings.py), Setting        *)
(* (core/setting.py) and the case-insensitive Store (core/utils.py).       *)
(*                                                                         *)
(* One LazySettings instance is followed from before its construction      *)
(* through its public calls (key/attribute read, as_dict, configure).      *)
(* The process environment, the parsed command line and the file system    *)
(* (what resolving and importing each specification yields) are inputs     *)
(* fixed in the initial state.                                             *)
(*                                                                         *)
(* The components LazySettings is built from are followed on their own     *)
(* under separate specifications over the same variables: the Store        *)
(* (SpecStore), the path resolution of a Setting (SpecPath) and the fields *)
(* (SpecField).  Each specification keeps the variables of the others at   *)
(* their idle values.                                                      *)
(***************************************************************************)
EXTENDS Integers, Sequences, FiniteSets, TLC

\* ------------------------------------------------------------------ bounds
\* Number of public calls made on the instance.
MaxAccesses == 2
\* Number of specifications passed positionally to LazySettings(...).
MaxInit == 2

\* ------------------------------------------------------------- input sets
None == "None"

\* Raw specification strings naming settings files.  "dev", "dev2" and "dev3"
\* are importable modules and "dev.py" names the file of "dev"; the others
\* cannot be loaded (see FileSystem).
Specs == {"dev", "dev.py", "dev2", "dev3", "missing", "broken", "syntax", "outside"}

\* Base directories: one that exists and one that does not.
BaseDirs == {"app/settings", "nowhere"}

\* Values os.environ may hold for a configured key (None: key absent).
EnvValues == {None, "dev", "missing"}
\* Values the command line may give for a flag (None: flag absent).
CliValues == {None, "dev.py", "dev2", "broken", "syntax"}
\* Values the init arguments are drawn from.
InitValues == {"dev", "dev3", "missing", "outside"}

RECURSIVE SeqsUpTo(_, _)
SeqsUpTo(S, n) ==
    IF n = 0 THEN {<<>>}
    ELSE LET shorter == SeqsUpTo(S, n - 1)
         IN shorter \cup {Append(q, x) : q \in shorter, x \in S}

\* -------------------------------------------------------- exception classes
\* Subclasses of InvalidSettingFile (the class itself included).
InvalidSettingFileFamily ==
    { "InvalidSettingFile", "SettingFileIsNotFilePath",
      "SettingFileDirDoesNotExist", "SettingFileDoesNotExist",
      "UnsupportedFileType", "InvalidFileFormat", "UnknownFileType" }

\* Exceptions caught by `except (ImportError, TypeError)` in Setting.load.
\* ModuleNotFoundError is a subclass of ImportError.
ImportErrorFamily == { "ImportError", "ModuleNotFoundError", "TypeError" }

\* ------------------------------------------------------------------ Store
\* Store.__keytransform__: key.upper(), on the names used by the model.
KeyTransform(key) ==
    CASE key = "x" -> "X"
      [] key = "n" -> "N"
      [] key \in {"Foo", "foo"} -> "FOO"
      [] key \in {"Bar", "bar"} -> "BAR"
      [] key = "helper" -> "HELPER"
      [] key = "_p" -> "_P"
      [] OTHER -> key

EmptyStore == [k \in {} |-> None]

\* Store.__setitem__
StoreSetItem(store, key, value) ==
    [k \in DOMAIN store \cup {KeyTransform(key)} |->
        IF k = KeyTransform(key) THEN value ELSE store[k]]

\* Store.__contains__
StoreContains(store, key) == KeyTransform(key) \in DOMAIN store

\* ----------------------------------------------------------------- fields
ConstantField(v) == [cls |-> "ConstantField", value |-> v, configurable |-> FALSE]
IntField(v, conf) == [cls |-> "IntField", value |-> v, configurable |-> conf]

\* What dir(module) / getattr(module, name) give for each settings file, in
\* dir() order (sorted, upper case before lower case).  kind: "raw" a plain
\* value, "field" a Field instance, "function" / "module" an imported
\* function or module.
ModuleContent(file) ==
    CASE file \in {"dev", "dev.py"} -> << [name |-> "X", kind |-> "raw", value |-> 1],
                          [name |-> "Y", kind |-> "raw", value |-> 15],
                          [name |-> "_p", kind |-> "raw", value |-> 99],
                          [name |-> "helper", kind |-> "function", value |-> 0] >>
      [] file = "dev2" -> << [name |-> "Z", kind |-> "field", value |-> IntField(10, TRUE)],
                          [name |-> "x", kind |-> "raw", value |-> 5] >>
      [] file = "dev3" -> << [name |-> "X", kind |-> "raw", value |-> 7],
                             [name |-> "n", kind |-> "field", value |-> IntField(3, FALSE)] >>
      [] OTHER -> << >>

VARIABLES
    base_dir,       \* the base_dir argument: an existing directory or not
    env_keys,       \* options.env_keys
    environ,        \* os.environ restricted to the keys the model configures
    argv,           \* parsed command line: flag -> value or None
    initArgs,       \* positional specifications given to LazySettings(...)
    strict,         \* options.validation.strict
    constructed,    \* LazySettings.__init__ has run
    initialized,    \* self._initialized
    settings,       \* self.settings: sequence of Setting objects
    store,          \* self._store
    warnings,       \* warnings issued through warnings.warn, in order
    result,         \* outcome of the last public call
    accesses,       \* number of public calls made
    passes,         \* number of times _setup() went past its guard
    loads,          \* number of times _load() was entered
    lastPass,       \* trace of the most recent pass
    \* --- a Store / Storable on its own (SpecStore)
    namespace,      \* the dict under a Store: made (constructed), dict (raw key -> value)
    written,        \* the last write: path taken and the (key, value) pairs given
    \* --- the path resolution of one Setting (SpecPath)
    specification,  \* self._settings_file, a string as a sequence of tokens
    setting_base_dir, \* self._base_dir, a path or None
    denied,         \* the directories of the disk without search permission
    cached_file_path, \* self._file_path
    cached_absolute_file_path, \* self._absolute_file_path
    path_result,    \* outcome of the last file_path() / absolute_file_path() call
    \* --- one field on its own (SpecField)
    field,          \* the field object
    field_result,   \* outcome of the last call on the field
    container       \* a SetField given the field object as a child

settingsVars == << base_dir, env_keys, environ, argv, initArgs, strict, constructed,
                   initialized, settings, store, warnings, result, accesses, passes,
                   loads, lastPass >>
storeVars == << namespace, written >>
pathVars == << specification, setting_base_dir, denied, cached_file_path,
              cached_absolute_file_path, path_result >>
fieldVars == << field, field_result, container >>

vars == << settingsVars, storeVars, pathVars, fieldVars >>

inputs == << base_dir, env_keys, environ, argv, initArgs, strict >>

\* The file system and interpreter as seen by Setting.load: what resolving
\* the path of a specification and importing the located module yields.
\* resolve is the exception class raised inside Setting.module_file_path()
\* ("ok": none); import is the exception class raised by
\* importlib.import_module ("ok": none).
\* A base directory that does not exist makes the resolution of every
\* specification raise BasePathDoesNotExist (Setting.absolute_base_path).
\*   missing: no such file under the base directory
\*   outside: absolute path that is not relative to the absolute base path
\*   broken:  the module imports a package that is not installed
\*   syntax:  the module's source does not compile
FileSystem(file) ==
    CASE base_dir = "nowhere" -> [resolve |-> "BasePathDoesNotExist", import |-> "ok"]
      [] file = "missing" -> [resolve |-> "SettingFileDoesNotExist", import |-> "ok"]
      [] file = "outside" -> [resolve |-> "SettingFileLoadError", import |-> "ok"]
      [] file = "broken" -> [resolve |-> "ok", import |-> "ModuleNotFoundError"]
      [] file = "syntax" -> [resolve |-> "ok", import |-> "SyntaxError"]
      [] OTHER -> [resolve |-> "ok", import |-> "ok"]

\* The file a specification resolves to under the base directory: "dev" and
\* "dev.py" both resolve to dev.py.
ModuleFile(file) == IF file = "dev.py" THEN "dev" ELSE file

\* Names of environment variables the options may configure.
EnvNames == {"E1", "E2"}

\* DEFAULT_CMD_LINE_ARGS, appended by SettingsOptions.__post_init__
DEFAULT_CMD_LINE_ARGS == << "--pickysettings" >>

\* LazySettings.command_line_args
CommandLineArgs == DEFAULT_CMD_LINE_ARGS


\* ---------------------------------------------------------------- Setting
\* Setting.__init__
Setting(settings_file) ==
    [file |-> settings_file, stored |-> FALSE, store |-> EmptyStore]

\* Setting.__setitem__: values that are not Field instances are wrapped in a
\* ConstantField.
SettingSetItem(setting, entry) ==
    LET value == IF entry.kind = "field" THEN entry.value
                 ELSE ConstantField(entry.value)
    IN [setting EXCEPT !.store = StoreSetItem(@, entry.name, value)]

\* Names starting with '_' are skipped by the generator in Setting.load.
StartsWithUnderscore(name) == name \in {"_p"}

\* The for loop at the end of Setting.load, over dir(module).
RECURSIVE PopulateFromModule(_, _)
PopulateFromModule(setting, entries) ==
    IF entries = <<>> THEN setting
    ELSE LET entry == Head(entries)
             keep == /\ ~StartsWithUnderscore(entry.name)
                     /\ entry.kind \notin {"module", "function"}
         IN PopulateFromModule(
                IF keep THEN SettingSetItem(setting, entry) ELSE setting,
                Tail(entries))

\* Variant of the try/except structure that lets the exceptions of the
\* import through.
LoadOutcomeRawImport(setting, o) ==
    IF o.resolve # "ok"
    THEN IF o.resolve \in InvalidSettingFileFamily
         THEN [raised |-> "InvalidSettingFile", exc |-> o.resolve, setting |-> setting]
         ELSE [raised |-> o.resolve, exc |-> None, setting |-> setting]
    ELSE IF o.import # "ok"
         THEN [raised |-> o.import, exc |-> None, setting |-> setting]
         ELSE [raised |-> "none", exc |-> None,
               setting |-> PopulateFromModule(setting, ModuleContent(setting.file))]

\* The try/except structure of Setting.load, given what path resolution and
\* import yield (o).  raised is the class of the exception leaving load()
\* ("none": load returned), exc the exception wrapped as its cause.
LoadOutcome(setting, o) ==
    IF o.resolve # "ok"
    THEN IF o.resolve \in InvalidSettingFileFamily
         THEN [raised |-> "InvalidSettingFile", exc |-> o.resolve, setting |-> setting]
         ELSE [raised |-> o.resolve, exc |-> None, setting |-> setting]
    ELSE IF o.import # "ok"
         THEN IF o.import \in ImportErrorFamily
              THEN [raised |-> "InvalidSettingFile", exc |-> o.import, setting |-> setting]
              ELSE [raised |-> o.import, exc |-> None, setting |-> setting]
         ELSE [raised |-> "none", exc |-> None,
               setting |-> PopulateFromModule(setting, ModuleContent(setting.file))]

\* Setting.load
SettingLoad(setting) == LoadOutcome(setting, FileSystem(setting.file))

\* ----------------------------------------------------------- LazySettings
\* Variant of _add that compares the files the strings resolve to.
AddOneByFile(sets, value) ==
    IF ModuleFile(value) \notin { ModuleFile(sets[i].file) : i \in DOMAIN sets }
    THEN Append(sets, Setting(value))
    ELSE sets

\* The membership test and append of LazySettings._add for one value.
AddOne(sets, value) ==
    IF value \notin { sets[i].file : i \in DOMAIN sets }
    THEN Append(sets, Setting(value))
    ELSE sets

\* LazySettings._add
RECURSIVE Add(_, _)
Add(sets, values) ==
    IF values = <<>> THEN sets
    ELSE Add(AddOne(sets, Head(values)), Tail(values))

\* Variant of the loop that stops at the first missing key when validation
\* is strict.
RECURSIVE AddEnvLoopFailFast(_, _, _, _)
AddEnvLoopFailFast(keys, sets, warns, errors) ==
    IF keys = <<>> THEN [settings |-> sets, warnings |-> warns, errors |-> errors]
    ELSE IF environ[Head(keys)] = None
         THEN IF ~strict
              THEN AddEnvLoopFailFast(Tail(keys), sets,
                        Append(warns, [cls |-> "EnvVarNotFound", about |-> Head(keys)]),
                        errors)
              ELSE [settings |-> sets, warnings |-> warns,
                    errors |-> Append(errors, Head(keys))]
         ELSE AddEnvLoopFailFast(Tail(keys), AddOne(sets, environ[Head(keys)]),
                                 warns, errors)

\* The for loop of LazySettings._add_env_setting_files, with
\* _add_env_setting_file inlined: a missing key is a warning when validation
\* is not strict and a collected error when it is.
RECURSIVE AddEnvLoop(_, _, _, _)
AddEnvLoop(keys, sets, warns, errors) ==
    IF keys = <<>> THEN [settings |-> sets, warnings |-> warns, errors |-> errors]
    ELSE IF environ[Head(keys)] = None
         THEN IF ~strict
              THEN AddEnvLoop(Tail(keys), sets,
                        Append(warns, [cls |-> "EnvVarNotFound", about |-> Head(keys)]),
                        errors)
              ELSE AddEnvLoop(Tail(keys), sets, warns, Append(errors, Head(keys)))
         ELSE AddEnvLoop(Tail(keys), AddOne(sets, environ[Head(keys)]), warns, errors)

\* The check after the loop of LazySettings._add_env_setting_files.
EnvRaise(r) ==
    [settings |-> r.settings, warnings |-> r.warnings, errors |-> r.errors,
     raised |-> IF r.errors # <<>> /\ strict THEN "EnvVarsNotFound" ELSE "none"]

\* LazySettings._add_env_setting_files
AddEnvSettingFiles(sets, warns) == EnvRaise(AddEnvLoop(env_keys, sets, warns, <<>>))

\* LazySettings._add_cli_setting_files
RECURSIVE AddCliSettingFiles(_, _)
AddCliSettingFiles(sets, flags) ==
    IF flags = <<>> THEN sets
    ELSE AddCliSettingFiles(
            IF argv[Head(flags)] # None THEN AddOne(sets, argv[Head(flags)]) ELSE sets,
            Tail(flags))

\* The final check of LazySettings._collect on the collected list.
CollectCheck(all, warns) ==
    [settings |-> all, warnings |-> warns, errors |-> <<>>,
     raised |-> IF Len(all) = 0 THEN "SettingsNotConfigured" ELSE "none"]

\* Variant of the final check that accepts an empty list.
CollectRestNoCheck(env) ==
    IF env.raised # "none" THEN env
    ELSE [settings |-> Add(AddCliSettingFiles(env.settings, CommandLineArgs), initArgs),
          warnings |-> env.warnings, errors |-> <<>>, raised |-> "none"]

\* Variant of _collect that adds the init arguments before the command line.
CollectRestInitBeforeCli(env) ==
    IF env.raised # "none" THEN env
    ELSE CollectCheck(AddCliSettingFiles(Add(env.settings, initArgs), CommandLineArgs),
                      env.warnings)

\* LazySettings._collect after _add_env_setting_files (env is its outcome):
\* the command line, the init arguments, the check for an empty list.
CollectRest(env) ==
    IF env.raised # "none" THEN env
    ELSE CollectCheck(Add(AddCliSettingFiles(env.settings, CommandLineArgs), initArgs),
                      env.warnings)

\* LazySettings._collect
Collect(sets, warns) == CollectRest(AddEnvSettingFiles(sets, warns))

\* list.remove of the element at position i
RemoveAt(seq, i) == SubSeq(seq, 1, i - 1) \o SubSeq(seq, i + 1, Len(seq))

\* Variant of update that keeps a value already in the namespace.
UpdateStoreKeepFirst(st, setting) ==
    [k \in DOMAIN st \cup DOMAIN setting.store |->
        IF k \in DOMAIN st THEN st[k] ELSE setting.store[k]]

\* The for loop of LazySettings.update over setting.items()
UpdateStore(st, setting) ==
    [k \in DOMAIN st \cup DOMAIN setting.store |->
        IF k \in DOMAIN setting.store THEN setting.store[k] ELSE st[k]]

\* The state the loop of _load works on: the list, the index (1-based
\* here), the errors, the namespace, the warnings and the files whose load()
\* was called so far.
LoopState(sets, i, errors, st, warns, attempts, raised) ==
    [settings |-> sets, i |-> i, errors |-> errors, store |-> st,
     warnings |-> warns, attempts |-> attempts, raised |-> raised]

\* Variant of the loop body that advances the index after removing a failed
\* setting.
LoadStepSkip(l, r) ==
    IF r.raised = "InvalidSettingFile"
    THEN LoopState(RemoveAt(l.settings, l.i), l.i + 1,
                   Append(l.errors, [path |-> l.settings[l.i].file, exc |-> r.exc]),
                   l.store,
                   IF ~strict
                   THEN Append(l.warnings, [cls |-> "InvalidSettingFile",
                                            about |-> l.settings[l.i].file])
                   ELSE l.warnings,
                   Append(l.attempts, l.settings[l.i].file), "none")
    ELSE IF r.raised # "none"
    THEN [l EXCEPT !.attempts = Append(@, l.settings[l.i].file), !.raised = r.raised]
    ELSE IF r.setting.stored
    THEN [l EXCEPT !.settings[l.i] = r.setting,
                   !.attempts = Append(@, l.settings[l.i].file),
                   !.raised = "RuntimeError"]
    ELSE [l EXCEPT !.settings[l.i] = [r.setting EXCEPT !.stored = TRUE],
                   !.i = @ + 1,
                   !.store = UpdateStore(@, r.setting),
                   !.attempts = Append(@, l.settings[l.i].file)]

\* One iteration of the while loop of LazySettings._load, with
\* LazySettings.update inlined; r is the outcome of setting.load().
LoadStep(l, r) ==
    IF r.raised = "InvalidSettingFile"
    THEN LoopState(RemoveAt(l.settings, l.i), l.i,
                   Append(l.errors, [path |-> l.settings[l.i].file, exc |-> r.exc]),
                   l.store,
                   IF ~strict
                   THEN Append(l.warnings, [cls |-> "InvalidSettingFile",
                                            about |-> l.settings[l.i].file])
                   ELSE l.warnings,
                   Append(l.attempts, l.settings[l.i].file), "none")
    ELSE IF r.raised # "none"
    THEN [l EXCEPT !.attempts = Append(@, l.settings[l.i].file), !.raised = r.raised]
    ELSE IF r.setting.stored
    THEN [l EXCEPT !.settings[l.i] = r.setting,
                   !.attempts = Append(@, l.settings[l.i].file),
                   !.raised = "RuntimeError"]
    ELSE [l EXCEPT !.settings[l.i] = [r.setting EXCEPT !.stored = TRUE],
                   !.i = @ + 1,
                   !.store = UpdateStore(@, r.setting),
                   !.attempts = Append(@, l.settings[l.i].file)]

\* The while loop of LazySettings._load: it ends when the index passes the
\* end of the list or an exception leaves the body.
RECURSIVE LoadLoop(_)
LoadLoop(l) ==
    IF l.raised # "none" \/ l.i > Len(l.settings) THEN l
    ELSE LoadLoop(LoadStep(l, SettingLoad(l.settings[l.i])))

\* Variant of the check after the loop that raises only when validation is
\* strict and nothing loaded.
LoadRaiseStrictAndEmpty(l) ==
    IF l.raised = "none" /\ l.errors # <<>> /\ (strict /\ Len(l.settings) = 0)
    THEN [l EXCEPT !.raised = "SettingsLoadError"]
    ELSE l

\* The check after the while loop of LazySettings._load.
LoadRaise(l) ==
    IF l.raised = "none" /\ l.errors # <<>> /\ (strict \/ Len(l.settings) = 0)
    THEN [l EXCEPT !.raised = "SettingsLoadError"]
    ELSE l

\* LazySettings._load
Load(sets, st, warns) ==
    LoadRaise(LoadLoop(LoopState(sets, 1, <<>>, st, warns, <<>>, "none")))

NoPass == [ran |-> FALSE, loaded |-> FALSE, collected |-> <<>>, attempts |-> <<>>,
           errors |-> <<>>, raised |-> "none"]

Files(sets) == [i \in DOMAIN sets |-> sets[i].file]

\* The outcome of _setup when _collect raised (c is the outcome of _collect).
SetupCollectFailed(c) ==
    [initialized |-> FALSE, settings |-> c.settings, store |-> store,
     warnings |-> c.warnings, raised |-> c.raised, errors |-> c.errors,
     pass |-> [ran |-> TRUE, loaded |-> FALSE, collected |-> Files(c.settings),
               attempts |-> <<>>, errors |-> <<>>, raised |-> c.raised]]

\* The outcome of _setup after _load (l is the outcome of _load on the
\* collected list): _initialized is set only when _load returned.
SetupLoaded(collected, l) ==
    [initialized |-> (l.raised = "none"), settings |-> l.settings,
     store |-> l.store, warnings |-> l.warnings, raised |-> l.raised,
     errors |-> IF l.raised = "SettingsLoadError" THEN l.errors ELSE <<>>,
     pass |-> [ran |-> TRUE, loaded |-> TRUE, collected |-> Files(collected),
               attempts |-> l.attempts, errors |-> l.errors, raised |-> l.raised]]

\* LazySettings._setup after _collect (c is its outcome).
SetupAfterCollect(c) ==
    IF c.raised # "none" THEN SetupCollectFailed(c)
    ELSE SetupLoaded(c.settings, Load(c.settings, store, c.warnings))

\* LazySettings._setup, from the current state of the instance.
Setup ==
    IF initialized
    THEN [initialized |-> TRUE, settings |-> settings, store |-> store,
          warnings |-> warnings, raised |-> "none", errors |-> <<>>,
          pass |-> NoPass]
    ELSE SetupAfterCollect(Collect(settings, warnings))

\* --------------------------------------------------------------- actions
\* Keys used for reads; "W" is defined by no settings file.
ReadKeys == {"x", "Y", "W"}
\* Keys and values used for overrides.
ConfigureKeys == {"Z", "n", "W"}
Overrides == {4}

NoResult == [op |-> "none", key |-> None, arg |-> 0, raised |-> "none",
             value |-> 0, dict |-> EmptyStore, errors |-> <<>>]

\* Idle values of the variables of the other specifications.
NoStore == [made |-> FALSE, dict |-> EmptyStore]
NoWrite == [path |-> "none", pairs |-> << >>]
StoreIdle == namespace = NoStore /\ written = NoWrite
\* None where a path is expected.
NonePath == [root |-> "None", parts |-> << >>]
NoPathResult == [op |-> "none", raised |-> "none", path |-> NonePath, how |-> "none"]
PathIdle ==
    /\ specification = << >>
    /\ setting_base_dir = NonePath
    /\ denied = {}
    /\ cached_file_path = NonePath
    /\ cached_absolute_file_path = NonePath
    /\ path_result = NoPathResult
\* A Python value held by or offered to a field: its type, for numbers
\* and booleans twice its numeric value (so that 1.5 is an integer here),
\* and for a dict its (key, value) pairs in the order of the dict.
Val(t, twice) == [t |-> t, twice |-> twice, items |-> << >>]
DictVal(pairs) == [t |-> "dict", twice |-> 0, items |-> pairs]
NoneVal == Val("NoneType", 0)
\* A field without children: its class, _value, the stored _configurable
\* and _optional options ("None" where the option holds None), _max, _min.
NoChild ==
    [kind |-> "absent", value |-> NoneVal, configurable |-> "None",
     optional |-> "None", max |-> NoneVal, min |-> NoneVal]
\* The keys a SetField may hold, in their upper-case form.
ChildKeys == {"A", "B", "C"}
NoChildren == [k \in ChildKeys |-> NoChild]
NoField ==
    [kind |-> "absent", value |-> NoneVal, configurable |-> "None",
     optional |-> "None", max |-> NoneVal, min |-> NoneVal,
     children |-> NoChildren]
NoFieldResult ==
    [op |-> "none", arg |-> NoneVal, overrides |-> << >>, raised |-> "none",
     prior |-> NoField, optional |-> FALSE, configurable |-> FALSE]
\* No SetField holds the field object.
NoContainer == [held |-> FALSE, configurable |-> "None"]
FieldIdle ==
    field = NoField /\ field_result = NoFieldResult /\ container = NoContainer

Init ==
    /\ StoreIdle /\ PathIdle /\ FieldIdle
    /\ base_dir \in BaseDirs
    /\ env_keys \in {<<>>, <<"E1", "E2">>}
    /\ base_dir = "nowhere" => env_keys = <<>>
    /\ environ \in [EnvNames -> EnvValues]
    /\ env_keys = <<>> => \A e \in EnvNames : environ[e] = None
    /\ argv \in [{CommandLineArgs[i] : i \in DOMAIN CommandLineArgs} -> CliValues]
    /\ initArgs \in SeqsUpTo(InitValues, MaxInit)
    /\ strict \in BOOLEAN
    /\ constructed = FALSE
    /\ initialized = FALSE
    /\ settings = <<>>
    /\ store = EmptyStore
    /\ warnings = <<>>
    /\ result = NoResult
    /\ accesses = 0
    /\ passes = 0
    /\ loads = 0
    /\ lastPass = NoPass

\* The effect of a forced _setup() (s is its outcome) on the instance.
Forced(s) ==
    /\ initialized' = s.initialized
    /\ settings' = s.settings
    /\ store' = s.store
    /\ warnings' = s.warnings
    /\ passes' = IF s.pass.ran THEN passes + 1 ELSE passes
    /\ loads' = IF s.pass.loaded THEN loads + 1 ELSE loads
    /\ lastPass' = IF s.pass.ran THEN s.pass ELSE lastPass

\* Variant of __init__ that runs the setup at once.
ConstructEager ==
    /\ ~constructed
    /\ constructed' = TRUE
    /\ Forced(Setup)
    /\ UNCHANGED << inputs, result, accesses, storeVars, pathVars, fieldVars >>

\* LazySettings.__init__
Construct ==
    /\ ~constructed
    /\ constructed' = TRUE
    /\ initialized' = FALSE
    /\ settings' = <<>>
    /\ store' = EmptyStore
    /\ UNCHANGED << inputs, warnings, result, accesses, passes, loads, lastPass,
                    storeVars, pathVars, fieldVars >>

\* What __getitem__ returns or raises after the forced setup.
GetItemResult(key, s) ==
    IF s.raised # "none"
    THEN [NoResult EXCEPT !.op = "getitem", !.key = key,
                          !.raised = s.raised, !.errors = s.errors]
    ELSE IF ~StoreContains(s.store, key)
    THEN [NoResult EXCEPT !.op = "getitem", !.key = key,
                          !.raised = "AttributeError"]
    ELSE [NoResult EXCEPT !.op = "getitem", !.key = key,
                          !.value = s.store[KeyTransform(key)].value]

\* A public call: the forced setup, then the call's own result.
Call(s, res) ==
    /\ constructed
    /\ accesses < MaxAccesses
    /\ Forced(s)
    /\ accesses' = accesses + 1
    /\ result' = res
    /\ UNCHANGED << inputs, constructed, storeVars, pathVars, fieldVars >>

\* LazySettings.__getitem__ (also reached by attribute access)
GetItemAfter(key, s) == Call(s, GetItemResult(key, s))
GetItem(key) == GetItemAfter(key, Setup)

\* FieldStorable.as_dict: the unwrapped values of the stored fields.
FieldStorableAsDict(st) == [k \in DOMAIN st |-> st[k].value]

\* What as_dict returns or raises after the forced setup.
AsDictResult(s) ==
    IF s.raised # "none"
    THEN [NoResult EXCEPT !.op = "as_dict",
                          !.raised = s.raised, !.errors = s.errors]
    ELSE [NoResult EXCEPT !.op = "as_dict",
                          !.dict = FieldStorableAsDict(s.store)]

\* LazySettings.as_dict
AsDictAfter(s) == Call(s, AsDictResult(s))
AsDict == AsDictAfter(Setup)

\* What configure raises after the forced setup: the method raises
\* FieldConfigurationError.ExpectedType unconditionally; the loop over the
\* overrides that follows the raise statement is never reached.
ConfigureResult(key, value, s) ==
    IF s.raised # "none"
    THEN [NoResult EXCEPT !.op = "configure", !.key = key, !.arg = value,
                          !.raised = s.raised, !.errors = s.errors]
    ELSE [NoResult EXCEPT !.op = "configure", !.key = key, !.arg = value,
                          !.raised = "FieldConfigurationError.ExpectedType"]

\* LazySettings.configure(**{key: value})
ConfigureAfter(key, value, s) == Call(s, ConfigureResult(key, value, s))
Configure(key, value) == ConfigureAfter(key, value, Setup)

Next ==
    \/ Construct
    \/ \E key \in ReadKeys : GetItem(key)
    \/ AsDict
    \/ \E key \in ConfigureKeys, value \in Overrides : Configure(key, value)

Spec == Init /\ [][Next]_vars

\* The LazySettings variables while another component is followed.
SettingsIdle ==
    /\ base_dir = "app/settings"
    /\ env_keys = << >>
    /\ environ = [e \in EnvNames |-> None]
    /\ argv = [f \in {CommandLineArgs[i] : i \in DOMAIN CommandLineArgs} |-> None]
    /\ initArgs = << >>
    /\ strict = TRUE
    /\ constructed = FALSE
    /\ initialized = FALSE
    /\ settings = << >>
    /\ store = EmptyStore
    /\ warnings = << >>
    /\ result = NoResult
    /\ accesses = 0
    /\ passes = 0
    /\ loads = 0
    /\ lastPass = NoPass

TypeOK ==
    /\ constructed \in BOOLEAN
    /\ initialized \in BOOLEAN
    /\ accesses \in 0..MaxAccesses
    /\ passes <= accesses
    /\ loads <= passes
    /\ \A i \in DOMAIN settings : settings[i].file \in Specs

\* ------------------------------------------------- expectations for claims
\* The public names a settings file defines, in the store's normalized case.
ModuleKeys(file) ==
    { KeyTransform(ModuleContent(file)[i].name) : i \in
        { j \in DOMAIN ModuleContent(file) :
            /\ ModuleContent(file)[j].kind \in {"raw", "field"}
            /\ ModuleContent(file)[j].name # "_p" } }

\* The plain value a settings file gives a name it defines.
ModuleValue(file, K) ==
    LET js == { j \in DOMAIN ModuleContent(file) :
                    KeyTransform(ModuleContent(file)[j].name) = K }
        j == CHOOSE m \in js : \A o \in js : o <= m
        e == ModuleContent(file)[j]
    IN IF e.kind = "field" THEN e.value.value ELSE e.value

EnvFiles == { environ[env_keys[i]] : i \in DOMAIN env_keys } \ {None}
CliFiles == { argv[f] : f \in DOMAIN argv } \ {None}
InitFiles == { initArgs[i] : i \in DOMAIN initArgs }

\* C1: constructing a LazySettings collects and loads nothing and raises
\* nothing; the first public call (read, as_dict or configure) runs the
\* first collect-then-load pass, and an error of that pass is what the call
\* raises.
C1_LazyConstruction ==
    /\ accesses = 0 =>
          /\ passes = 0
          /\ ~initialized
          /\ settings = <<>>
          /\ store = EmptyStore
          /\ warnings = <<>>
          /\ result = NoResult
    /\ accesses >= 1 => passes >= 1
    /\ accesses = 1 /\ lastPass.raised # "none" => result.raised = lastPass.raised

C1_Witness ==
    /\ constructed
    /\ accesses = 1
    /\ passes = 1
    /\ result.raised = "SettingsLoadError"

\* C2: the collect-then-load pass runs at most once on an instance, whatever
\* the public calls and also when the first pass ended in an error.
C2_AtMostOnePass == loads <= 1

\* C3: with source A ("dev") named by an environment variable only, B
\* ("dev2") by a command-line flag and C ("dev3") at initialization, each
\* defining X, a completed setup leaves X with C's value; without C with
\* B's; without B and C with A's.
C3_MergePrecedence ==
    (initialized /\ "dev" \in EnvFiles /\ "dev" \notin InitFiles) =>
        store["X"].value =
            IF "dev3" \in InitFiles THEN ModuleValue("dev3", "X")
            ELSE IF "dev2" \in CliFiles THEN ModuleValue("dev2", "X")
            ELSE ModuleValue("dev", "X")

C3_Witness ==
    /\ initialized
    /\ "dev" \in EnvFiles /\ "dev" \notin InitFiles
    /\ "dev2" \in CliFiles
    /\ "dev3" \in InitFiles
    /\ result.op = "getitem" /\ result.key = "x"
    /\ result.value = ModuleValue("dev3", "X")

\* C4: after a completed setup the namespace is the union of the fields of
\* the sources that loaded, every source holds the fields of its file under
\* case-normalized names, and a name defined by several sources has the
\* value of the latest of them in collection order.
C4_UnionLatestWins ==
    initialized =>
        /\ \A i \in DOMAIN settings :
              /\ DOMAIN settings[i].store = ModuleKeys(settings[i].file)
              /\ \A K \in DOMAIN settings[i].store :
                    settings[i].store[K].value = ModuleValue(settings[i].file, K)
        /\ DOMAIN store = UNION { ModuleKeys(settings[i].file) : i \in DOMAIN settings }
        /\ \A K \in DOMAIN store :
              LET is == { i \in DOMAIN settings : K \in ModuleKeys(settings[i].file) }
                  last == CHOOSE m \in is : \A o \in is : o <= m
              IN store[K].value = ModuleValue(settings[last].file, K)

C4_Witness ==
    /\ initialized
    /\ Files(settings) = << "dev", "dev2" >>
    /\ result.op = "as_dict"
    /\ result.dict = [K \in {"X", "Y", "Z"} |->
                        IF K = "X" THEN 5 ELSE IF K = "Y" THEN 15 ELSE 10]

\* A specification whose file resolves and imports.
Loadable(file) == FileSystem(file) = [resolve |-> "ok", import |-> "ok"]
NotLoadable(file) == ~Loadable(file)

\* The exception that makes a specification fail to load.
OriginalException(file) ==
    IF FileSystem(file).resolve # "ok" THEN FileSystem(file).resolve
    ELSE FileSystem(file).import

\* Failures of the kinds Setting.load catches: an InvalidSettingFile
\* (sub)class raised while resolving the path, or ImportError / TypeError
\* raised by the import.
Wrapped(file) ==
    \/ /\ FileSystem(file).resolve # "ok"
       /\ FileSystem(file).resolve \in InvalidSettingFileFamily
    \/ /\ FileSystem(file).resolve = "ok"
       /\ FileSystem(file).import \in ImportErrorFamily

Causes(files) ==
    [i \in DOMAIN files |-> [path |-> files[i], exc |-> OriginalException(files[i])]]

Paths(errors) == [i \in DOMAIN errors |-> errors[i].path]

Completed(pass) == pass.loaded /\ pass.raised \in {"none", "SettingsLoadError"}

NothingCollected == EnvFiles = {} /\ CliFiles = {} /\ initArgs = <<>>

IsMissing(env_key) == environ[env_key] = None
IsPresent(env_key) == environ[env_key] # None

\* C8 (as claimed): when no specification comes from the environment, the
\* command line or the init arguments, every access fails with
\* SettingsNotConfigured in strict and lenient mode alike and nothing is
\* loaded.
C8_Original ==
    (NothingCollected /\ accesses >= 1) =>
        /\ result.raised = "SettingsNotConfigured"
        /\ loads = 0
        /\ store = EmptyStore

\* C8 (amended): the same, unless validation is strict and a configured
\* environment key is absent (collection then already failed with
\* EnvVarsNotFound).
C8_NotConfigured ==
    ( /\ NothingCollected
      /\ accesses >= 1
      /\ ~(strict /\ SelectSeq(env_keys, IsMissing) # <<>>) ) =>
        /\ result.raised = "SettingsNotConfigured"
        /\ ~initialized
        /\ loads = 0
        /\ store = EmptyStore

C8_Witness ==
    /\ strict
    /\ NothingCollected
    /\ accesses >= 1
    /\ result.raised = "SettingsNotConfigured"

RECURSIVE Dedup(_)
Dedup(seq) ==
    IF seq = <<>> THEN <<>>
    ELSE LET front == Dedup(SubSeq(seq, 1, Len(seq) - 1))
             x == seq[Len(seq)]
         IN IF \E i \in DOMAIN front : front[i] = x THEN front ELSE Append(front, x)

PresentEnvFiles ==
    LET present == SelectSeq(env_keys, IsPresent)
    IN [i \in DOMAIN present |-> environ[present[i]]]

PresentCliFiles ==
    LET flags == SelectSeq(CommandLineArgs, LAMBDA f : argv[f] # None)
    IN [i \in DOMAIN flags |-> argv[flags[i]]]

Range(seq) == { seq[i] : i \in DOMAIN seq }

\* C9: with configured environment keys absent, strict validation makes
\* every access fail with one EnvVarsNotFound listing every missing key,
\* after the present keys were collected; lenient validation warns once per
\* missing key and goes on to collect the present keys, the command line
\* and the init arguments.
C9_MissingEnvKeys ==
    LET missing == SelectSeq(env_keys, IsMissing) IN
    (accesses >= 1 /\ missing # <<>>) =>
        IF strict
        THEN /\ result.raised = "EnvVarsNotFound"
             /\ result.errors = missing
             /\ Files(settings) = Dedup(PresentEnvFiles)
             /\ loads = 0
        ELSE /\ result.raised # "EnvVarsNotFound"
             /\ Len(warnings) >= Len(missing)
             /\ SubSeq(warnings, 1, Len(missing)) =
                    [i \in DOMAIN missing |-> [cls |-> "EnvVarNotFound", about |-> missing[i]]]
             /\ Range(lastPass.collected) =
                    Range(PresentEnvFiles) \cup Range(PresentCliFiles) \cup Range(initArgs)
             /\ passes = 1 =>
                    lastPass.collected =
                        Dedup(PresentEnvFiles \o PresentCliFiles \o initArgs)

C9_Witness ==
    /\ strict
    /\ accesses >= 1
    /\ result.raised = "EnvVarsNotFound"
    /\ result.errors = << "E1", "E2" >>

C9_WitnessLenient ==
    /\ ~strict
    /\ environ["E1"] = None /\ environ["E2"] = "dev"
    /\ initialized
    /\ lastPass.collected = << "dev", "dev2", "dev3" >>

\* C10: configure({k: v}) on an existing, configurable, non-Constant field
\* with a valid v succeeds and a read of k then returns v.
C10_ConfigureReplaces ==
    ( /\ result.op = "configure"
      /\ initialized
      /\ StoreContains(store, result.key)
      /\ store[KeyTransform(result.key)].cls # "ConstantField"
      /\ store[KeyTransform(result.key)].configurable ) =>
        /\ result.raised = "none"
        /\ store[KeyTransform(result.key)].value = result.arg

\* C11: configure with a key that is not in the loaded namespace is rejected
\* with CannotAddField, and the namespace keeps the set of names it had when
\* loading finished.
C11_CannotAddField ==
    ( /\ result.op = "configure"
      /\ initialized
      /\ ~StoreContains(store, result.key) ) =>
        /\ result.raised = "CannotAddField"
        /\ DOMAIN store = UNION { ModuleKeys(settings[i].file) : i \in DOMAIN settings }

\* ============================================================ Store alone
\* Number of (key, value) pairs in a mapping given to the constructor or to
\* update.
MaxPairs == 2

StoreKeys == {"Foo", "foo", "FOO", "Bar"}
StoreValues == {1, 2}

\* The mappings and keyword arguments callers give: (key, value) pairs with
\* distinct keys, in iteration order.
Mappings ==
    { m \in SeqsUpTo([k : StoreKeys, v : StoreValues], MaxPairs) :
        \A i, j \in DOMAIN m : i # j => m[i].k # m[j].k }

\* dict.update, the method Store inherits: the built-in inserts every pair
\* under the key as given and does not go through the __setitem__ of a
\* subclass.
RECURSIVE DictUpdate(_, _)
DictUpdate(dict, m) ==
    IF m = << >> THEN dict
    ELSE DictUpdate([k \in DOMAIN dict \cup {Head(m).k} |->
                        IF k = Head(m).k THEN Head(m).v ELSE dict[k]],
                    Tail(m))

\* Store.__getitem__
StoreGetItem(dict, key) ==
    IF KeyTransform(key) \in DOMAIN dict
    THEN [raised |-> "none", value |-> dict[KeyTransform(key)]]
    ELSE [raised |-> "AttributeError", value |-> 0]

\* Store.__init__(mapping) / Store(**kwargs); Storable.__init__ is the case
\* of an empty mapping.
StoreInit(m) ==
    /\ ~namespace.made
    /\ namespace' = [made |-> TRUE, dict |-> DictUpdate(EmptyStore, m)]
    /\ written' = [path |-> "init", pairs |-> m]
    /\ UNCHANGED << settingsVars, pathVars, fieldVars >>

\* Store.__setitem__ / Storable.__setitem__
StoreSetItemCall(key, value) ==
    /\ namespace.made
    /\ namespace' = [namespace EXCEPT !.dict = StoreSetItem(@, key, value)]
    /\ written' = [path |-> "setitem", pairs |-> << [k |-> key, v |-> value] >>]
    /\ UNCHANGED << settingsVars, pathVars, fieldVars >>

\* Storable.update(mapping) / Storable.update(**kwargs)
StorableUpdate(m) ==
    /\ namespace.made
    /\ namespace' = [namespace EXCEPT !.dict = DictUpdate(@, m)]
    /\ written' = [path |-> "update", pairs |-> m]
    /\ UNCHANGED << settingsVars, pathVars, fieldVars >>

InitStore == SettingsIdle /\ StoreIdle /\ PathIdle /\ FieldIdle

NextStore ==
    \/ \E m \in Mappings : StoreInit(m)
    \/ \E key \in StoreKeys, value \in StoreValues : StoreSetItemCall(key, value)
    \/ \E m \in Mappings : StorableUpdate(m)

SpecStore == InitStore /\ [][NextStore]_vars

\* The value the last pair written under a name (in any case) carries.
LastValue(pairs, K) ==
    LET is == { i \in DOMAIN pairs : KeyTransform(pairs[i].k) = K }
    IN pairs[CHOOSE m \in is : \A o \in is : o <= m].v

\* C12: after any sequence of writes through any write path every stored
\* key is in the normalized case, and what was last written under a name is
\* read back under every spelling of that name (names differing only in
\* case share one entry, the last write winning).
C12_NormalizedKeys ==
    /\ \A k \in DOMAIN namespace.dict : k = KeyTransform(k)
    /\ \A i \in DOMAIN written.pairs : \A key \in StoreKeys :
          KeyTransform(key) = KeyTransform(written.pairs[i].k) =>
              StoreGetItem(namespace.dict, key) =
                  [raised |-> "none", value |-> LastValue(written.pairs, KeyTransform(key))]

\* =================================================== path resolution alone
\* Strings are sequences of tokens: "." and "/" are the two characters the
\* resolution looks at, every other token stands for a non-empty run of
\* name characters.
Tokens == {"app", "ini", "py", ".", "/"}

\* Length of a specification string, in tokens.
MaxSpecLen == 5

SpecStrings == SeqsUpTo(Tokens, MaxSpecLen) \ { << >> }

\* `tok in string`
Contains(str, tok) == \E i \in DOMAIN str : str[i] = tok

\* str.split(sep) for a one-character separator
RECURSIVE Split(_, _)
Split(str, sep) ==
    IF ~Contains(str, sep) THEN << str >>
    ELSE LET i == CHOOSE j \in DOMAIN str :
                      str[j] = sep /\ \A m \in 1..(j - 1) : str[m] # sep
         IN << SubSeq(str, 1, i - 1) >> \o Split(SubSeq(str, i + 1, Len(str)), sep)

\* sep.join(parts)
RECURSIVE Join(_, _)
Join(parts, sep) ==
    IF parts = << >> THEN << >>
    ELSE IF Len(parts) = 1 THEN parts[1]
    ELSE parts[1] \o << sep >> \o Join(Tail(parts), sep)

\* Number of "/" a string starts with.
RECURSIVE LeadingSlashes(_)
LeadingSlashes(str) ==
    IF str # << >> /\ Head(str) = "/" THEN 1 + LeadingSlashes(Tail(str)) ELSE 0

KeptSegment(seg) == seg # << >> /\ seg # << "." >>

\* pathlib.PosixPath(str): the root ("" for a relative path; exactly two
\* leading slashes are kept as "//") and the segments, empty and "."
\* segments dropped.
PosixPath(str) ==
    [root |-> CASE LeadingSlashes(str) = 0 -> ""
                [] LeadingSlashes(str) = 2 -> "//"
                [] OTHER -> "/",
     parts |-> SelectSeq(Split(str, "/"), KeptSegment)]

\* PurePath.name
Name(path) == IF path.parts = << >> THEN << >> ELSE path.parts[Len(path.parts)]

\* str.rfind('.') + 1 (0: not found)
RFindDot(name) ==
    IF ~Contains(name, ".") THEN 0
    ELSE CHOOSE j \in DOMAIN name :
             name[j] = "." /\ \A m \in (j + 1)..Len(name) : name[m] # "."

\* PurePath.suffix of a name
SuffixOfName(name) ==
    IF 1 < RFindDot(name) /\ RFindDot(name) < Len(name)
    THEN SubSeq(name, RFindDot(name), Len(name))
    ELSE << >>

\* PurePath.suffix
Suffix(path) == SuffixOfName(Name(path))

\* str.lstrip('.')
RECURSIVE LStripDots(_)
LStripDots(name) ==
    IF name # << >> /\ Head(name) = "." THEN LStripDots(Tail(name)) ELSE name

\* len(PurePath.suffixes)
SuffixCount(path) ==
    IF Name(path) # << >> /\ Name(path)[Len(Name(path))] = "." THEN 0
    ELSE Len(Split(LStripDots(Name(path)), ".")) - 1

\* The name with_suffix gives: the old suffix, if any, replaced.
NameWithSuffix(name, suffix) ==
    IF SuffixOfName(name) = << >> THEN name \o suffix
    ELSE SubSeq(name, 1, RFindDot(name) - 1) \o suffix

\* PurePath.with_suffix: ValueError for a path with an empty name.
WithSuffix(path, suffix) ==
    IF Name(path) = << >>
    THEN [raised |-> "ValueError", path |-> NonePath]
    ELSE [raised |-> "none",
          path |-> [path EXCEPT !.parts[Len(path.parts)] = NameWithSuffix(@, suffix)]]

\* PurePath.is_absolute
IsAbsolute(path) == path.root # ""

\* PurePath.relative_to(other): ok is FALSE where it raises ValueError.
RelativeTo(path, other) ==
    IF /\ path.root = other.root
       /\ Len(other.parts) <= Len(path.parts)
       /\ SubSeq(path.parts, 1, Len(other.parts)) = other.parts
    THEN [ok |-> TRUE,
          path |-> [root |-> "",
                    parts |-> SubSeq(path.parts, Len(other.parts) + 1, Len(path.parts))]]
    ELSE [ok |-> FALSE, path |-> NonePath]

\* os.getcwd(): the process runs in the root directory.
Cwd == [root |-> "/", parts |-> << >>]

\* PurePath.joinpath
JoinPath(path, other) ==
    IF IsAbsolute(other) THEN other
    ELSE [root |-> path.root, parts |-> path.parts \o other.parts]

\* Path.absolute
Absolute(path) == IF IsAbsolute(path) THEN path ELSE JoinPath(Cwd, path)

\* PurePath.parent
Parent(path) ==
    IF path.parts = << >> THEN path
    ELSE [path EXCEPT !.parts = SubSeq(@, 1, Len(@) - 1)]

\* ------------------------------------------------------------- the disk
\* The directories and files of the disk, as the segments under the root.
\* app/app.py is a directory with a file-like name; app/py.ini is an
\* existing file of another type.
PyFile(name) == << name, ".", "py" >>

DiskDirs ==
    { << >>,
      << <<"app">> >>,
      << <<"app">>, <<"ini">> >>,
      << <<"app">>, <<"ini">>, <<"ini">> >>,
      << <<"app">>, PyFile("app") >> }

DiskFiles ==
    { << PyFile("ini") >>,
      << <<"app">>, PyFile("ini") >>,
      << <<"app">>, <<"py", ".", "ini">> >>,
      << <<"app">>, <<"ini">>, PyFile("app") >>,
      << <<"app">>, <<"ini">>, <<"ini">>, PyFile("app") >> }

\* os.stat on an absolute path: "oserror" (PermissionError) under a
\* directory without search permission, else what is there.
Stat(path) ==
    IF \E n \in 0..(Len(path.parts) - 1) : SubSeq(path.parts, 1, n) \in denied
    THEN "oserror"
    ELSE IF path.parts \in DiskDirs THEN "dir"
    ELSE IF path.parts \in DiskFiles THEN "file"
    ELSE "missing"

\* The base_dir arguments: none, directories that exist (relative and
\* absolute), a directory that does not exist, a file.
Bases ==
    { NonePath,
      [root |-> "", parts |-> << <<"app">> >>],
      [root |-> "", parts |-> << <<"app">>, <<"ini">> >>],
      [root |-> "/", parts |-> << <<"app">> >>],
      [root |-> "", parts |-> << <<"py">> >>],
      [root |-> "", parts |-> << <<"app">>, PyFile("ini") >>] }

\* pickysettings.lib.extensions.EXTENSIONS: the table of known extensions.
EXTENSIONS == { << ".", "py" >>, << ".", "ini" >> }

\* Setting.DEFAULT_FILE_EXT, as the suffix '.%s' % DEFAULT_FILE_EXT
DEFAULT_FILE_EXT == << ".", "py" >>

\* SettingFileLoadError and its subclasses.
SettingFileLoadErrorFamily ==
    InvalidSettingFileFamily \cup
        { "SettingFileLoadError", "BasePathIsNotDir", "BasePathDoesNotExist" }

\* Setting.absolute_base_path, given the stat of the absolute base path.
AbsoluteBasePathFor(base, st) ==
    CASE st = "oserror" -> [raised |-> "OSError", path |-> NonePath]
      [] st = "file" -> [raised |-> "BasePathIsNotDir", path |-> NonePath]
      [] st = "missing" -> [raised |-> "BasePathDoesNotExist", path |-> NonePath]
      [] OTHER -> [raised |-> "none", path |-> Absolute(base)]

\* Setting.absolute_base_path
AbsoluteBasePath(base) ==
    IF base = NonePath THEN [raised |-> "none", path |-> NonePath]
    ELSE AbsoluteBasePathFor(base, Stat(Absolute(base)))

\* Variant of the checks that looks at the file before its directory.
RaiseForStatsFileFirst(parent, file) ==
    CASE file = "oserror" -> "OSError"
      [] file = "missing" -> "SettingFileDoesNotExist"
      [] parent = "oserror" -> "OSError"
      [] parent = "missing" -> "SettingFileDirDoesNotExist"
      [] file # "file" -> "SettingFileIsNotFilePath"
      [] OTHER -> "none"

\* The existence checks of raise_for_absolute_path, given the stat of the
\* parent and of the path: the directory, then the file, then its kind.
RaiseForStats(parent, file) ==
    CASE parent = "oserror" -> "OSError"
      [] parent = "missing" -> "SettingFileDirDoesNotExist"
      [] file = "oserror" -> "OSError"
      [] file = "missing" -> "SettingFileDoesNotExist"
      [] file # "file" -> "SettingFileIsNotFilePath"
      [] OTHER -> "none"

\* The suffix checks of raise_for_absolute_path, then the existence checks
\* (disk is their outcome).
RaiseForSuffix(count, suffix, disk) ==
    CASE count # 1 -> "RuntimeError"
      [] suffix # << ".", "py" >> /\ suffix \in EXTENSIONS -> "UnsupportedFileType"
      [] suffix # << ".", "py" >> -> "UnknownFileType"
      [] OTHER -> disk

\* raise_for_absolute_path: the class it raises, "none" when it returns.
RaiseForAbsolutePath(path) ==
    RaiseForSuffix(SuffixCount(path), Suffix(path),
                   RaiseForStats(Stat(Parent(path)), Stat(path)))

\* raise_for_absolute_path(path); return path
Validated(path, how) ==
    [raised |-> RaiseForAbsolutePath(path), path |-> path, how |-> how]

\* The branches of _get_absolute_file_path for a base directory that
\* exists (abs_base is its absolute form), in the order they are tried.
AbsoluteUnderBase(file_path, base, abs_base) ==
    IF IsAbsolute(file_path)
    THEN IF ~RelativeTo(file_path, abs_base).ok
         THEN [raised |-> "SettingFileLoadError", path |-> file_path, how |-> "absolute"]
         ELSE Validated(file_path, "absolute")
    ELSE IF RelativeTo(file_path, base).ok
    THEN Validated(Absolute(JoinPath(base, RelativeTo(file_path, base).path)),
                   "relative")
    ELSE IF RelativeTo(Absolute(file_path), abs_base).ok
    THEN Validated(JoinPath(abs_base, RelativeTo(Absolute(file_path), abs_base).path),
                   "relative_abs")
    ELSE Validated(Absolute(JoinPath(base, file_path)), "appended")

\* _get_absolute_file_path after absolute_base_path (bp is its outcome).
AbsoluteAfterBase(file_path, base, bp) ==
    IF bp.raised # "none"
    THEN [raised |-> bp.raised, path |-> file_path, how |-> "base"]
    ELSE IF base # NonePath THEN AbsoluteUnderBase(file_path, base, bp.path)
    ELSE Validated(Absolute(file_path), "nobase")

\* Setting._get_absolute_file_path(path=file_path)
GetAbsoluteFilePath(file_path, base) ==
    AbsoluteAfterBase(file_path, base, AbsoluteBasePath(base))

\* join_with_suffix(*parts) of _get_file_path
JoinWithSuffix(parts) == WithSuffix(PosixPath(Join(parts, "/")), DEFAULT_FILE_EXT)

\* Variant of the two-component case that takes the module form whatever
\* the trial resolution gave.
TwoComponentNoTrial(str, joined, trial) == joined

\* The two-component case of _get_file_path: joined is the module form
\* (the outcome of join_with_suffix), trial the outcome of resolving it to
\* an absolute file; `except SettingFileLoadError` catches that class and
\* its subclasses only.
TwoComponent(str, joined, trial) ==
    IF joined.raised # "none" THEN joined
    ELSE IF trial.raised \in SettingFileLoadErrorFamily
    THEN [raised |-> "none", path |-> PosixPath(str)]
    ELSE IF trial.raised # "none"
    THEN [raised |-> trial.raised, path |-> NonePath]
    ELSE joined

\* try: self._get_absolute_file_path(path=path)
TwoComponentTrial(str, joined, base) ==
    TwoComponent(str, joined, GetAbsoluteFilePath(joined.path, base))

\* The branch of _get_file_path for a string with a '.': parts is
\* settings_file.split('.').
GetFilePathDotted(str, parts, base) ==
    IF Contains(str, "/")
    THEN IF Len(parts) # 2
         THEN [raised |-> "InvalidFileFormat", path |-> NonePath]
         ELSE [raised |-> "none", path |-> PosixPath(str)]
    ELSE IF Len(parts) = 2
    THEN IF parts[1] = << >>
         THEN [raised |-> "UnsupportedFileType", path |-> NonePath]
         ELSE IF parts[2] = << >>
         THEN [raised |-> "InvalidFileFormat", path |-> NonePath]
         ELSE TwoComponentTrial(str, JoinWithSuffix(parts), base)
    ELSE JoinWithSuffix(parts)

\* Setting._get_file_path
GetFilePath(str, base) ==
    IF Contains(str, ".") THEN GetFilePathDotted(str, Split(str, "."), base)
    ELSE IF Contains(str, "/")
    THEN [raised |-> "SettingFileIsNotFilePath", path |-> NonePath]
    ELSE WithSuffix(PosixPath(str), DEFAULT_FILE_EXT)

\* Setting.file_path(): computed unless cached.
FilePathCall ==
    IF cached_file_path # NonePath
    THEN [raised |-> "none", path |-> cached_file_path]
    ELSE GetFilePath(specification, setting_base_dir)

\* The effect of a file_path() call whose outcome is r.
FilePathAfter(r) ==
    /\ specification # << >>
    /\ cached_file_path' = IF r.raised = "none" THEN r.path ELSE cached_file_path
    /\ path_result' = [op |-> "file_path", raised |-> r.raised, path |-> r.path,
                       how |-> "none"]
    /\ UNCHANGED << specification, setting_base_dir, denied, cached_absolute_file_path,
                    settingsVars, storeVars, fieldVars >>

\* Setting.file_path()
FilePath == FilePathAfter(FilePathCall)

\* Setting.absolute_file_path() after its file_path() call (r): cached, or
\* the exception of file_path(), or _get_absolute_file_path.
AbsoluteFilePathCall(r) ==
    IF cached_absolute_file_path # NonePath
    THEN [raised |-> "none", path |-> cached_absolute_file_path, how |-> "cached"]
    ELSE IF r.raised # "none"
    THEN [raised |-> r.raised, path |-> NonePath, how |-> "file_path"]
    ELSE GetAbsoluteFilePath(r.path, setting_base_dir)

\* The effect of an absolute_file_path() call: r is the outcome of the
\* file_path() call it makes, a its own outcome.
AbsoluteFilePathAfter(r, a) ==
    /\ specification # << >>
    /\ cached_file_path' =
          IF cached_absolute_file_path = NonePath /\ r.raised = "none"
          THEN r.path ELSE cached_file_path
    /\ cached_absolute_file_path' =
          IF a.raised = "none" THEN a.path ELSE cached_absolute_file_path
    /\ path_result' = [op |-> "absolute_file_path", raised |-> a.raised,
                       path |-> a.path, how |-> a.how]
    /\ UNCHANGED << specification, setting_base_dir, denied,
                    settingsVars, storeVars, fieldVars >>

AbsoluteFilePathFrom(r) == AbsoluteFilePathAfter(r, AbsoluteFilePathCall(r))

\* Setting.absolute_file_path()
AbsoluteFilePath == AbsoluteFilePathFrom(FilePathCall)

\* Directories that may lack search permission.
DeniedDirs == { << <<"app">>, <<"ini">> >> }

InitPath ==
    /\ SettingsIdle /\ StoreIdle /\ FieldIdle
    /\ specification \in SpecStrings
    /\ setting_base_dir \in Bases
    /\ denied \in SUBSET DeniedDirs
    /\ denied # {} => setting_base_dir.parts = << <<"app">> >>
    /\ cached_file_path = NonePath
    /\ cached_absolute_file_path = NonePath
    /\ path_result = NoPathResult

NextPath == FilePath \/ AbsoluteFilePath

SpecPath == InitPath /\ [][NextPath]_vars

\* PurePath.parts: the root, if any, then the segments.
PartsOf(path) ==
    IF path.root = "" THEN path.parts ELSE << << path.root >> >> \o path.parts

Reverse(seq) == [i \in DOMAIN seq |-> seq[Len(seq) + 1 - i]]

\* The comparison loop of paths_overlap over the reversed parts after the
\* starting index: "IndexError" where the base runs out of parts first.
OverlapLoop(reversed_parts, reversed_base_parts) ==
    LET bad == { i \in DOMAIN reversed_parts :
                    \/ i > Len(reversed_base_parts)
                    \/ reversed_base_parts[i] # reversed_parts[i] }
        first == CHOOSE i \in bad : \A j \in bad : i <= j
    IN IF bad = {} THEN "True"
       ELSE IF first > Len(reversed_base_parts) THEN "IndexError"
       ELSE "False"

\* paths_overlap after the reversal: find_starting_overlap_index, then the
\* loop.
OverlapFrom(reversed_parts, reversed_base_parts) ==
    LET found == { i \in DOMAIN reversed_parts :
                      reversed_parts[i] = reversed_base_parts[1] }
        start == CHOOSE i \in found : \A j \in found : i <= j
    IN IF found = {} THEN "False"
       ELSE OverlapLoop(SubSeq(reversed_parts, start + 1, Len(reversed_parts)),
                        Tail(reversed_base_parts))

\* pickysettings.lib.utils.paths_overlap(base_path, path), for a base with
\* at least one part: "ValueError" for paths relative to one another.
PathsOverlap(base_path, path) ==
    IF RelativeTo(path, base_path).ok THEN "ValueError"
    ELSE OverlapFrom(Reverse(PartsOf(path)), Reverse(PartsOf(base_path)))

\* The paths handed to paths_overlap: up to MaxOverlapParts segments, with
\* or without a root.
MaxOverlapParts == 3
OverlapSegments == { << "app" >>, << "ini" >>, << "py" >> }
RECURSIVE SegmentsOfLen(_)
SegmentsOfLen(n) ==
    IF n = 0 THEN { << >> }
    ELSE { Append(o, g) : o \in SegmentsOfLen(n - 1), g \in OverlapSegments }
OverlapPaths ==
    { [root |-> r, parts |-> o] :
        r \in {"", "/"},
        o \in UNION { SegmentsOfLen(n) : n \in 1..MaxOverlapParts } }

\* A call paths_overlap(base_path, path): the base is held in
\* setting_base_dir, the path in cached_file_path, and the outcome in
\* path_result (how: the value returned; raised: the exception).
InitOverlap ==
    /\ SettingsIdle /\ StoreIdle /\ FieldIdle
    /\ specification = << >>
    /\ denied = {}
    /\ cached_absolute_file_path = NonePath
    /\ setting_base_dir \in OverlapPaths
    /\ cached_file_path \in OverlapPaths
    /\ path_result = NoPathResult

OverlapCall ==
    /\ path_result.op = "none"
    /\ path_result' =
          [op |-> "paths_overlap",
           raised |-> IF PathsOverlap(setting_base_dir, cached_file_path)
                           \in {"True", "False"}
                      THEN "none"
                      ELSE PathsOverlap(setting_base_dir, cached_file_path),
           path |-> NonePath,
           how |-> IF PathsOverlap(setting_base_dir, cached_file_path)
                           \in {"True", "False"}
                   THEN PathsOverlap(setting_base_dir, cached_file_path)
                   ELSE "none"]
    /\ UNCHANGED << settingsVars, storeVars, fieldVars, specification,
                    setting_base_dir, denied, cached_file_path,
                    cached_absolute_file_path >>

NextOverlap == OverlapCall

SpecOverlap == InitOverlap /\ [][NextOverlap]_vars

\* ------------------------------------------------ expectations (paths)
HasDot == Contains(specification, ".")
HasSlash == Contains(specification, "/")
DotParts == Split(specification, ".")

\* The path a/b/c.py of a dotted module string a.b.c
ModulePath(parts) ==
    LET joined == PosixPath(Join(parts, "/"))
    IN [joined EXCEPT !.parts[Len(joined.parts)] = @ \o << ".", "py" >>]

Returned(path) ==
    path_result.raised = "none" /\ path_result.path = path

\* The specifications of the two-component case: a.b, both parts non-empty,
\* no '/'.
TwoComponentCase ==
    /\ HasDot /\ ~HasSlash
    /\ Len(DotParts) = 2
    /\ DotParts[1] # << >> /\ DotParts[2] # << >>

\* C13: file_path() classifies a specification by this precedence: with
\* '/' and '.', the literal path for exactly two dot-parts and
\* InvalidFileFormat otherwise; with '.' and no '/', more than two
\* dot-parts give the module path a/b/c.py, two dot-parts give
\* UnsupportedFileType for an empty first part and InvalidFileFormat for an
\* empty second part; with '/' and no '.', SettingFileIsNotFilePath; with
\* neither, the name plus '.py'.
C13_Classification ==
    path_result.op = "file_path" =>
        /\ (HasDot /\ HasSlash /\ Len(DotParts) = 2) =>
              Returned(PosixPath(specification))
        /\ (HasDot /\ HasSlash /\ Len(DotParts) # 2) =>
              path_result.raised = "InvalidFileFormat"
        /\ (HasDot /\ ~HasSlash /\ Len(DotParts) > 2) =>
              Returned(ModulePath(DotParts))
        /\ (HasDot /\ ~HasSlash /\ Len(DotParts) = 2 /\ DotParts[1] = << >>) =>
              path_result.raised = "UnsupportedFileType"
        /\ (HasDot /\ ~HasSlash /\ Len(DotParts) = 2 /\ DotParts[1] # << >>
                /\ DotParts[2] = << >>) =>
              path_result.raised = "InvalidFileFormat"
        /\ (~HasDot /\ HasSlash) =>
              path_result.raised = "SettingFileIsNotFilePath"
        /\ (~HasDot /\ ~HasSlash) =>
              Returned([root |-> "", parts |-> << specification \o << ".", "py" >> >>])

\* The trial of the two-component case: resolving the module form a/b.py
\* to an absolute file.
Trial == GetAbsoluteFilePath(ModulePath(DotParts), setting_base_dir)

NotRelativeCase ==
    /\ path_result.op = "absolute_file_path"
    /\ path_result.how \notin {"cached", "none"}
    /\ cached_file_path # NonePath
    /\ setting_base_dir # NonePath
    /\ AbsoluteBasePath(setting_base_dir).raised = "none"
    /\ ~IsAbsolute(cached_file_path)
    /\ ~RelativeTo(cached_file_path, setting_base_dir).ok
    /\ ~RelativeTo(Absolute(cached_file_path),
                   AbsoluteBasePath(setting_base_dir).path).ok

\* C15: a file path that is neither absolute nor relative to the base
\* directory is appended to the base only if it does not overlap the base;
\* if paths_overlap says it does, resolution fails with InvalidFileFormat
\* and never returns the concatenation.
C15_OverlapRejected ==
    NotRelativeCase =>
        IF PathsOverlap(setting_base_dir, cached_file_path) = "True"
        THEN /\ path_result.raised = "InvalidFileFormat"
             /\ path_result.how # "appended"
        ELSE path_result.how = "appended"

Listed ==
    { "RuntimeError", "UnsupportedFileType", "UnknownFileType",
      "SettingFileDirDoesNotExist", "SettingFileDoesNotExist",
      "SettingFileIsNotFilePath" }

\* The first applicable failure of a candidate absolute path, in the order
\* claimed; "none" for a '.py' file that exists; "other" where the disk
\* gives no answer.
FirstApplicable(path) ==
    IF SuffixCount(path) # 1 THEN "RuntimeError"
    ELSE IF Suffix(path) # << ".", "py" >>
    THEN (IF Suffix(path) \in EXTENSIONS THEN "UnsupportedFileType"
          ELSE "UnknownFileType")
    ELSE IF Stat(Parent(path)) = "missing" THEN "SettingFileDirDoesNotExist"
    ELSE IF Stat(Parent(path)) = "oserror" THEN "other"
    ELSE IF Stat(path) = "missing" THEN "SettingFileDoesNotExist"
    ELSE IF Stat(path) = "dir" THEN "SettingFileIsNotFilePath"
    ELSE IF Stat(path) = "file" THEN "none"
    ELSE "other"

\* absolute_file_path() computed a candidate absolute path and validated it.
ValidatedCase ==
    /\ path_result.op = "absolute_file_path"
    /\ path_result.how \in {"absolute", "relative", "relative_abs",
                             "appended", "nobase"}
    /\ path_result.raised # "SettingFileLoadError"

\* C16: validation of a candidate absolute path reports the first
\* applicable failure in the order: suffix count other than one
\* (RuntimeError), suffix known but not '.py' (UnsupportedFileType), suffix
\* unknown (UnknownFileType), parent directory missing
\* (SettingFileDirDoesNotExist), file missing (SettingFileDoesNotExist),
\* path is a directory (SettingFileIsNotFilePath); it passes only for an
\* existing '.py' file.
C16_ValidationOrder ==
    ValidatedCase =>
        /\ FirstApplicable(path_result.path) # "other" =>
              path_result.raised = FirstApplicable(path_result.path)
        /\ path_result.raised \in Listed \cup {"none"} =>
              path_result.raised = FirstApplicable(path_result.path)

\* A wrong extension is reported although the file exists.
C16_Witness ==
    /\ ValidatedCase
    /\ Stat(path_result.path) = "file"
    /\ Suffix(path_result.path) = << ".", "ini" >>
    /\ path_result.raised = "UnsupportedFileType"

SpecificationErrors ==
    { "InvalidFileFormat", "UnsupportedFileType", "UnknownFileType",
      "SettingFileIsNotFilePath" }

\* C17: file_path() of a non-empty string either returns a path or raises
\* one of the specification errors; no other exception leaves it.
C17_Total ==
    path_result.op = "file_path" =>
        path_result.raised \in SpecificationErrors \cup {"none"}

\* ------------------------------------------------------------- fields
IntVal(n) == Val("int", 2 * n)
BoolVal(b) == Val("bool", IF b THEN 2 ELSE 0)
ListVal == Val("list", 0)

\* The values offered to configure(): -1, 0, 7, 15, 1.5, 7.0, True, False,
\* 'x', '7', a list, and a field instance.
Candidates ==
    { IntVal(-1), IntVal(0), IntVal(7), IntVal(15), Val("float", 3),
      Val("float", 14), BoolVal(TRUE), BoolVal(FALSE), Val("str", 0),
      Val("numstr", 14), ListVal, Val("field", 0) }

\* Python's truth value of a stored option or bound.
Truthy(option) == option = "True"
TruthyVal(v) == v.t \in {"int", "float", "bool"} /\ v.twice # 0

IsNumber(v) == v.t \in {"int", "float", "bool"}

\* Meta.defaults of each field class for 'configurable'.
DefaultConfigurable(kind) ==
    CASE kind \in {"series", "dict"} -> "True"
      [] kind = "constant" -> "False"
      [] OTHER -> "None"

\* ValueField.configurable
ValueConfigurable(f) ==
    IF f.configurable = "None" THEN Truthy(DefaultConfigurable(f.kind))
    ELSE Truthy(f.configurable)

\* ValueField.optional
ValueOptional(f) == Truthy(f.optional)

\* `self._max and value > self._max`, with the class Python raises in it.
ExceedsMax(f, v) ==
    IF ~TruthyVal(f.max) THEN "none"
    ELSE IF ~IsNumber(v) THEN "TypeError"
    ELSE IF v.twice > f.max.twice THEN "ExceedsMax"
    ELSE "none"

\* `self._min and value < self._min`
ExceedsMin(f, v) ==
    IF ~TruthyVal(f.min) THEN "none"
    ELSE IF ~IsNumber(v) THEN "TypeError"
    ELSE IF v.twice < f.min.twice THEN "ExceedsMin"
    ELSE "none"

\* NumericField._validate
NumericValidate(f, v) ==
    IF ExceedsMax(f, v) # "none" THEN [raised |-> ExceedsMax(f, v), value |-> v]
    ELSE [raised |-> ExceedsMin(f, v), value |-> v]

\* IntField._validate: float(value), int(value), the comparison of the
\* truncated value with itself, then super(IntField, self).validate, a
\* method no class defines.
IntValidate(f, v) ==
    IF v.t = "str" THEN [raised |-> "ExpectedType", value |-> v]
    ELSE IF v.t \in {"list", "field"} THEN [raised |-> "TypeError", value |-> v]
    ELSE [raised |-> "AttributeError", value |-> v]

\* FloatField._validate: float(value), then super(IntField, self) on an
\* object that is not an IntField.
FloatValidate(f, v) ==
    IF v.t = "str" THEN [raised |-> "ExpectedType", value |-> v]
    ELSE [raised |-> "TypeError", value |-> v]

\* BooleanField._validate
BooleanValidate(f, v) ==
    [raised |-> IF v.t = "bool" THEN "none" ELSE "ExpectedType", value |-> v]

\* SeriesField._validate of a list without constraints on its elements
SeriesValidate(f, v) ==
    [raised |-> IF v.t = "list" THEN "none" ELSE "ExpectedType", value |-> v]

\* ConstantField._validate
ConstantValidate(f, v) ==
    [raised |-> IF v.t = "dict" THEN "UnexpectedType" ELSE "none", value |-> v]

\* The constraints of the DictField of the tests: keys of type str among
\* 'foo', 'bar', 'baz'; values of type int among 1, 2, 3.
AllowedKeys == {"foo", "bar", "baz"}
AllowedValues == {2, 4, 6}
DictKeysOf(v) == { v.items[i][1] : i \in DOMAIN v.items }

\* SeriesField._validate_element_val(v)
ValidateElementVal(v) ==
    IF v.t = "field" THEN "UnexpectedFieldInstance"
    ELSE IF v.t # "int" THEN "ExpectedType"
    ELSE IF v.twice \notin AllowedValues THEN "DisallowedValue"
    ELSE "none"

\* DictField._validate_element_key(k) for a str key
ValidateElementKey(k) ==
    IF k \notin AllowedKeys THEN "DisallowedKey" ELSE "none"

\* The body of the loop without the test of the key against the value held
DictPairAnyKey(f, k, v) ==
    IF v.t = "field" THEN "UnexpectedFieldInstance"
    ELSE IF ValidateElementVal(v) # "none" THEN ValidateElementVal(v)
    ELSE ValidateElementKey(k)

\* The body of the loop of DictField._validate for one pair
DictPair(f, k, v) ==
    IF v.t = "field" THEN "UnexpectedFieldInstance"
    ELSE IF k \notin DictKeysOf(f.value) THEN "CannotAddField"
    ELSE IF ValidateElementVal(v) # "none" THEN ValidateElementVal(v)
    ELSE ValidateElementKey(k)

\* The loop of DictField._validate over the pairs left
RECURSIVE DictLoop(_, _)
DictLoop(f, pairs) ==
    IF pairs = << >> THEN "none"
    ELSE IF DictPair(f, Head(pairs)[1], Head(pairs)[2]) # "none"
    THEN DictPair(f, Head(pairs)[1], Head(pairs)[2])
    ELSE DictLoop(f, Tail(pairs))

\* DictField._validate
DictValidate(f, v) ==
    [raised |-> IF v.t # "dict" THEN "ExpectedType" ELSE DictLoop(f, v.items),
     value |-> v]

\* The _validate method of each class, beneath its decorator
ValidateOf(f, v) ==
    CASE f.kind = "numeric" -> NumericValidate(f, v)
      [] f.kind \in {"int", "posint"} -> IntValidate(f, v)
      [] f.kind \in {"float", "posfloat"} -> FloatValidate(f, v)
      [] f.kind = "boolean" -> BooleanValidate(f, v)
      [] f.kind = "series" -> SeriesValidate(f, v)
      [] f.kind = "dict" -> DictValidate(f, v)
      [] OTHER -> ConstantValidate(f, v)

\* The check_null_value decorator of the _validate methods: a candidate
\* that is not None (none of Candidates is) goes to the method it wraps.
CheckNullValue(f, v) == ValidateOf(f, v)

\* self._validate(val)
Validate(f, v) ==
    IF f.kind = "constant" THEN ConstantValidate(f, v) ELSE CheckNullValue(f, v)

\* The value setter given the outcome of _validate: the value is assigned
\* after validation returned.
SetValue(f, validated) ==
    IF validated.raised # "none" THEN [raised |-> validated.raised, field |-> f]
    ELSE [raised |-> "none", field |-> [f EXCEPT !.value = validated.value]]

\* ValueField.configure(value): the value setter.
ValueConfigure(f, v) ==
    IF ~ValueConfigurable(f) THEN [raised |-> "NonConfigurableField", field |-> f]
    ELSE SetValue(f, Validate(f, v))

\* SettingsFieldDict.items(): the children present, by key.
KeyOrder == << "A", "B", "C" >>
Items(f) == SelectSeq([i \in DOMAIN KeyOrder |-> f.children[KeyOrder[i]]],
                      LAMBDA c : c.kind # "absent")

\* all([...]) and any([...]) of Python
RECURSIVE PyAll(_)
PyAll(flags) == IF flags = << >> THEN TRUE ELSE Head(flags) /\ PyAll(Tail(flags))
RECURSIVE PyAny(_)
PyAny(flags) == IF flags = << >> THEN FALSE ELSE Head(flags) \/ PyAny(Tail(flags))

\* SetField.optional
SetOptional(f) ==
    PyAll([i \in DOMAIN Items(f) |-> ValueOptional(Items(f)[i])])

\* Variant that wants every child configurable.
SetConfigurableAll(f) ==
    IF f.configurable = "None"
    THEN PyAll([i \in DOMAIN Items(f) |-> ValueConfigurable(Items(f)[i])])
    ELSE Truthy(f.configurable)

\* SetField.configurable
SetConfigurable(f) ==
    IF f.configurable = "None"
    THEN PyAny([i \in DOMAIN Items(f) |-> ValueConfigurable(Items(f)[i])])
    ELSE Truthy(f.configurable)

Optional(f) == IF f.kind = "set" THEN SetOptional(f) ELSE ValueOptional(f)
Configurable(f) == IF f.kind = "set" THEN SetConfigurable(f) ELSE ValueConfigurable(f)

\* Variant of the checks that looks at the child before the value.
ConfigureChecksChildFirst(child, v) ==
    IF child.kind = "absent" THEN "CannotAddField"
    ELSE IF ~ValueConfigurable(child) THEN "NonConfigurableField"
    ELSE IF v.t = "field" THEN "UnexpectedFieldInstance"
    ELSE "none"

\* The checks (1) to (3) of the loop of SetField.configure on one pair,
\* child being the field under the key, absent when k is not in the set.
ConfigureChecks(child, v) ==
    IF child.kind = "absent" THEN "CannotAddField"
    ELSE IF v.t = "field" THEN "UnexpectedFieldInstance"
    ELSE IF ~ValueConfigurable(child) THEN "NonConfigurableField"
    ELSE "none"

\* One pass of the loop of SetField.configure over the (key, value) pairs
\* left: each child is configured as its pair is reached.
RECURSIVE ConfigureLoop(_, _)
ConfigureLoop(f, overrides) ==
    IF overrides = << >> THEN [raised |-> "none", field |-> f]
    ELSE LET k == Head(overrides)[1]
             v == Head(overrides)[2]
         IN IF ConfigureChecks(f.children[k], v) # "none"
            THEN [raised |-> ConfigureChecks(f.children[k], v), field |-> f]
            ELSE IF ValueConfigure(f.children[k], v).raised # "none"
            THEN [raised |-> ValueConfigure(f.children[k], v).raised, field |-> f]
            ELSE ConfigureLoop(
                    [f EXCEPT !.children[k] = ValueConfigure(f.children[k], v).field],
                    Tail(overrides))

\* SetField.configure(**overrides)
SetFieldConfigure(f, overrides) ==
    IF ~SetConfigurable(f) THEN [raised |-> "NonConfigurableField", field |-> f]
    ELSE ConfigureLoop(f, overrides)

\* The test of __setitem__ on the set's stored flag and the configurable
\* property of the field given.
CannotAdd(flag, child_configurable) ==
    flag # "None" /\ child_configurable /\ ~Truthy(flag)

\* SetField.__setitem__(key, value) for a field instance
SetFieldSetItem(f, k, child) ==
    IF CannotAdd(f.configurable, ValueConfigurable(child))
    THEN [raised |-> "CannotAddConfigurableField", field |-> f]
    ELSE [raised |-> "none", field |-> [f EXCEPT !.children[k] = child]]

\* SetField.__addfields__(k=child)
SetFieldAddFields(f, k, child) ==
    IF f.children[k].kind # "absent"
    THEN [raised |-> "FieldAlreadySet", field |-> f]
    ELSE SetFieldSetItem(f, k, child)

\* Field instances: NumericField, IntField, FloatField with max and min;
\* PositiveIntField and PositiveFloatField (min = 0); BooleanField,
\* SeriesField, ConstantField.
Bounds ==
    { << NoneVal, NoneVal >>, << IntVal(10), NoneVal >>, << IntVal(10), IntVal(7) >>,
      << IntVal(0), NoneVal >>, << NoneVal, IntVal(0) >> }

ValueFieldOf(kind, default, configurable, optional, max, min) ==
    [kind |-> kind, value |-> default, configurable |-> configurable,
     optional |-> optional, max |-> max, min |-> min]

ValueFields ==
    { ValueFieldOf(kind, IntVal(5), c, "False", b[1], b[2]) :
        kind \in {"numeric", "int", "float"}, c \in {"None", "True"}, b \in Bounds }
    \cup { ValueFieldOf(kind, IntVal(5), "True", "False", NoneVal, IntVal(0)) :
             kind \in {"posint", "posfloat"} }
    \cup { ValueFieldOf("boolean", BoolVal(FALSE), c, o, NoneVal, NoneVal) :
             c \in {"None", "True", "False"}, o \in {"True", "False"} }
    \cup { ValueFieldOf("series", ListVal, "None", "False", NoneVal, NoneVal),
           ValueFieldOf("constant", IntVal(3), "False", "False", NoneVal, NoneVal),
           ValueFieldOf("constant", DictVal(<< << "foo", IntVal(1) >> >>),
                        "False", "False", NoneVal, NoneVal) }
    \cup { ValueFieldOf("dict", DictVal(<< << "foo", IntVal(1) >>, << "bar", IntVal(2) >> >>),
                        c, "False", NoneVal, NoneVal) : c \in {"None", "True", "False"} }

MaxDictLen == 2

\* The dicts offered to DictField.configure: up to MaxDictLen pairs with
\* distinct keys, values 1, 9, 'apple' and a field instance.
DictPairs == {"foo", "bar", "baz"} \X { IntVal(1), IntVal(9), Val("str", 0), Val("field", 0) }
RECURSIVE DictsOfLen(_)
DictsOfLen(n) ==
    IF n = 0 THEN { << >> }
    ELSE UNION { { Append(o, p) : p \in { q \in DictPairs :
                                            \A i \in DOMAIN o : o[i][1] # q[1] } } :
                 o \in DictsOfLen(n - 1) }
DictCandidates == { DictVal(o) : o \in UNION { DictsOfLen(n) : n \in 0..MaxDictLen } }

\* The values offered to configure() of a field of the kind
CandidatesFor(kind) ==
    IF kind = "dict" THEN Candidates \cup DictCandidates ELSE Candidates

\* The fields given to a SetField as children.
ChildFields ==
    { ValueFieldOf("boolean", BoolVal(FALSE), "None", "True", NoneVal, NoneVal),
      ValueFieldOf("boolean", BoolVal(FALSE), "True", "False", NoneVal, NoneVal),
      ValueFieldOf("constant", IntVal(3), "False", "False", NoneVal, NoneVal) }

TopLevel(f) ==
    [kind |-> f.kind, value |-> f.value, configurable |-> f.configurable,
     optional |-> f.optional, max |-> f.max, min |-> f.min,
     children |-> NoChildren]

\* SetField(A=..., B=..., configurable=..., optional=...): the instances
\* whose construction does not raise.
SetFields ==
    { [kind |-> "set", value |-> NoneVal, configurable |-> c, optional |-> o,
       max |-> NoneVal, min |-> NoneVal,
       children |-> [k \in ChildKeys |-> IF k = "A" THEN a ELSE IF k = "B" THEN b
                                                     ELSE NoChild]] :
        c \in {"None", "True", "False"}, o \in {"None", "False"},
        a \in ChildFields \cup {NoChild}, b \in ChildFields \cup {NoChild} }

Constructible(f) ==
    \A k \in ChildKeys :
        f.children[k].kind # "absent" =>
            SetFieldSetItem(f, k, f.children[k]).raised = "none"

MaxOverrides == 2

\* The mappings given to SetField.configure, as (key, value) pairs in the
\* order of the mapping, keys distinct and written in alphabetical order.
OverrideValues == { BoolVal(TRUE), Val("str", 0), Val("field", 0) }
KeyRank(k) == CHOOSE i \in DOMAIN KeyOrder : KeyOrder[i] = k
\* The pairs that may follow the pairs of o.
NextPairs(o) ==
    { q \in ChildKeys \X OverrideValues :
        \A i \in DOMAIN o : KeyRank(o[i][1]) < KeyRank(q[1]) }
RECURSIVE OverridesOfLen(_)
OverridesOfLen(n) ==
    IF n = 0 THEN { << >> }
    ELSE UNION { { Append(o, p) : p \in NextPairs(o) } : o \in OverridesOfLen(n - 1) }
OverrideSeqs == UNION { OverridesOfLen(n) : n \in 0..MaxOverrides }

FieldAfter(op, arg, overrides, outcome) ==
    /\ field' = outcome.field
    /\ field_result' = [op |-> op, arg |-> arg, overrides |-> overrides,
                        raised |-> outcome.raised,
                        prior |-> field,
                        optional |-> FALSE, configurable |-> FALSE]
    /\ UNCHANGED << container, settingsVars, storeVars, pathVars >>

\* field.configure(v) on a value field
ConfigureValue ==
    /\ field.kind \notin {"set", "absent"}
    /\ \E v \in CandidatesFor(field.kind) :
          FieldAfter("configure", v, << >>,
                     [raised |-> ValueConfigure(field, v).raised,
                      field |-> [field EXCEPT
                                   !.value = ValueConfigure(field, v).field.value]])

\* field.configure(**overrides) on a SetField
ConfigureSet ==
    /\ field.kind = "set"
    /\ \E o \in OverrideSeqs : FieldAfter("configure", NoneVal, o, SetFieldConfigure(field, o))

\* The keys given to __addfields__; "C" is a key no SetField here holds.
AddKeys == {"A", "B"}

\* field.__addfields__(k=child)
AddFields ==
    /\ field.kind = "set"
    /\ \E k \in AddKeys, child \in ChildFields :
          FieldAfter("addfields", NoneVal, << >>, SetFieldAddFields(field, k, child))

\* A read of field.optional and field.configurable
ReadFlags ==
    /\ field.kind # "absent"
    /\ field_result' = [field_result EXCEPT !.op = "flags",
                                           !.optional = Optional(field),
                                           !.configurable = Configurable(field)]
    /\ UNCHANGED << field, container, settingsVars, storeVars, pathVars >>

\* SetField(inner=field, configurable=flag): a set built around the field
\* object, which it holds, when __setitem__ lets it in, as the object itself.
Contain ==
    /\ field.kind # "absent"
    /\ ~container.held
    /\ \E flag \in {"True", "False"} :
          /\ container' = [held |-> ~CannotAdd(flag, Configurable(field)),
                           configurable |-> flag]
          /\ field_result' =
                [op |-> "contain", arg |-> NoneVal, overrides |-> << >>,
                 raised |-> IF CannotAdd(flag, Configurable(field))
                            THEN "CannotAddConfigurableField" ELSE "none",
                 prior |-> field, optional |-> FALSE, configurable |-> FALSE]
    /\ UNCHANGED << field, settingsVars, storeVars, pathVars >>

InitField ==
    /\ SettingsIdle /\ StoreIdle /\ PathIdle
    /\ container = NoContainer
    /\ field \in { TopLevel(f) : f \in ValueFields }
                 \cup { f \in SetFields : Constructible(f) }
    /\ field_result = NoFieldResult

NextField == ConfigureValue \/ ConfigureSet \/ AddFields \/ ReadFlags \/ Contain

SpecField == InitField /\ [][NextField]_vars

\* ------------------------------------------------ expectations (fields)
\* C18: a configure() that raises leaves the field as it was before the
\* call, for every field variant: a read returns the value held before.
C18_FailedConfigureKeepsValue ==
    (field_result.op = "configure" /\ field_result.raised # "none") =>
        field = field_result.prior

NumericKinds == {"numeric", "int", "float", "posint", "posfloat"}

\* v converts to the numeric kind; for the integer kinds, without losing a
\* fractional part.
Converts(kind, v) ==
    /\ v.t \in {"int", "float", "bool", "numstr"}
    /\ kind \in {"int", "posint"} => v.twice % 2 = 0

\* min <= v <= max for every bound that is set, a bound of 0 included.
WithinBounds(f, v) ==
    /\ f.max # NoneVal => v.twice <= f.max.twice
    /\ f.min # NoneVal => v.twice >= f.min.twice

\* C19: on a configurable numeric field, configure(v) succeeds exactly when
\* v converts to the numeric kind and lies within every bound that is set;
\* after a success a read returns v.
C19_NumericConfigure ==
    (/\ field_result.op = "configure"
     /\ field_result.prior.kind \in NumericKinds
     /\ ValueConfigurable(field_result.prior)) =>
        /\ field_result.raised = "none" <=>
              (/\ Converts(field.kind, field_result.arg)
               /\ WithinBounds(field_result.prior, field_result.arg))
        /\ field_result.raised = "none" =>
              field.value.twice = field_result.arg.twice

Present(f) == { k \in ChildKeys : f.children[k].kind # "absent" }

\* C20: a read of a SetField's optional flag gives the AND of its current
\* children's optional flags; a read of its configurable flag gives the flag
\* given at construction when one was given, otherwise the OR of its current
\* children's configurable flags.
C20_SetFlags ==
    (field_result.op = "flags" /\ field.kind = "set") =>
        /\ field_result.optional =
              (\A k \in Present(field) : field.children[k].optional = "True")
        /\ field_result.configurable =
              IF field.configurable # "None" THEN field.configurable = "True"
              ELSE \E k \in Present(field) : ValueConfigurable(field.children[k])

\* A set without an explicit flag holding a non-configurable child, read as
\* configurable and not optional after a configurable, required child was
\* added to it.
C20_Witness ==
    /\ field_result.op = "flags"
    /\ field.kind = "set" /\ field.configurable = "None"
    /\ field_result.prior.kind = "set"
    /\ Present(field_result.prior) # {}
    /\ Present(field_result.prior) # Present(field)
    /\ ~SetConfigurable(field_result.prior)
    /\ SetOptional(field_result.prior)
    /\ field_result.configurable
    /\ ~field_result.optional

\* C21: a SetField whose configurability is explicitly False never holds a
\* configurable child: at construction and through __addfields__ such a
\* child is rejected with CannotAddConfigurableField and not inserted.
C21_NoConfigurableHole ==
    /\ (field.kind = "set" /\ field.configurable = "False") =>
          \A k \in Present(field) : ~ValueConfigurable(field.children[k])
    /\ (container.held /\ container.configurable = "False") =>
          ~Configurable(field)
    /\ (field_result.op = "addfields" /\ field.configurable = "False"
          /\ field_result.raised = "CannotAddConfigurableField") =>
          field = field_result.prior

\* A call of SetField.configure with a single override (k, v).
SingleOverride(k, v) ==
    /\ field_result.op = "configure"
    /\ field_result.prior.kind = "set"
    /\ field_result.overrides = << << k, v >> >>

\* C22: in a SetField constructed with configurable=True, a child created
\* without a configurable flag is configurable through the set:
\* configure(child=v) with a valid v succeeds and the child then reads v.
C22_ChildTakesParentFlag ==
    \A k \in ChildKeys :
        (/\ SingleOverride(k, BoolVal(TRUE))
         /\ field_result.prior.configurable = "True"
         /\ field_result.prior.children[k].kind = "boolean"
         /\ field_result.prior.children[k].configurable = "None") =>
            /\ field_result.raised = "none"
            /\ field.children[k].value = BoolVal(TRUE)

\* The index of the first override that fails a check or the child's own
\* validation, 0 if none does; children before it are configured
\* independently of one another (keys are distinct).
PairFails(f, pair) ==
    \/ f.children[pair[1]].kind = "absent"
    \/ pair[2].t = "field"
    \/ ~ValueConfigurable(f.children[pair[1]])
    \/ Validate(f.children[pair[1]], pair[2]).raised # "none"

FirstFailing(f, o) ==
    IF \E i \in DOMAIN o : PairFails(f, o[i])
    THEN CHOOSE i \in DOMAIN o :
            PairFails(f, o[i]) /\ \A j \in 1..(i - 1) : ~PairFails(f, o[j])
    ELSE 0

\* The class the failing pair raises, in the order claimed.
PairRaises(f, pair) ==
    IF f.children[pair[1]].kind = "absent" THEN "CannotAddField"
    ELSE IF pair[2].t = "field" THEN "UnexpectedFieldInstance"
    ELSE IF ~ValueConfigurable(f.children[pair[1]]) THEN "NonConfigurableField"
    ELSE Validate(f.children[pair[1]], pair[2]).raised

\* C23: SetField.configure first requires the set to be configurable
\* (NonConfigurableField, no child changed); then, key by key, an unknown
\* key raises CannotAddField, a field instance as value
\* UnexpectedFieldInstance, a non-configurable child NonConfigurableField;
\* only a key that passes these reaches the child's configure.
C23_ConfigureOrder ==
    (field_result.op = "configure" /\ field_result.prior.kind = "set") =>
        LET f == field_result.prior
            o == field_result.overrides
        IN IF ~SetConfigurable(f)
           THEN field_result.raised = "NonConfigurableField" /\ field = f
           ELSE IF FirstFailing(f, o) = 0
           THEN field_result.raised = "none"
           ELSE /\ field_result.raised = PairRaises(f, o[FirstFailing(f, o)])
                /\ \A i \in FirstFailing(f, o)..Len(o) :
                      field.children[o[i][1]] = f.children[o[i][1]]

\* A field instance offered for a constant child of a configurable set:
\* the value is refused before the child is looked at.
C23_Witness ==
    /\ SingleOverride("A", Val("field", 0))
    /\ SetConfigurable(field_result.prior)
    /\ field_result.prior.children["A"].kind = "constant"
    /\ field_result.raised = "UnexpectedFieldInstance"

\* C29: a SetField.configure call with several overrides is all-or-nothing:
\* when it raises, every child named in the call holds the value it had
\* before the call.
C29_AllOrNothing ==
    (/\ field_result.op = "configure"
     /\ field_result.prior.kind = "set"
     /\ field_result.raised # "none") =>
        \A i \in DOMAIN field_result.overrides :
            field.children[field_result.overrides[i][1]].value =
                field_result.prior.children[field_result.overrides[i][1]].value

\* C24: no ConstantField holds a mapping (a mapping is refused at
\* construction with UnexpectedType), and configure() on a ConstantField
\* raises NonConfigurableField for every value and leaves the value as
\* constructed.
C24_ConstantLeaf ==
    /\ field.kind = "constant" => field.value.t # "dict"
    /\ (field_result.op = "configure" /\ field_result.prior.kind = "constant") =>
          /\ field_result.raised = "NonConfigurableField"
          /\ field = field_result.prior

\* The keys given at construction to the DictField of the tests.
OriginalKeys == {"foo", "bar"}

DictConfigured ==
    /\ field_result.op = "configure"
    /\ field_result.prior.kind = "dict"

ExpectedOverlap(base_parts, parts) ==
    LET found == { i \in DOMAIN parts : parts[i] = base_parts[Len(base_parts)] }
        last == CHOOSE i \in found : \A j \in found : j <= i
    IN /\ found # {}
       /\ last <= Len(base_parts)
       /\ SubSeq(parts, 1, last) =
             SubSeq(base_parts, Len(base_parts) - last + 1, Len(base_parts))

\* C28: paths_overlap raises ValueError for a path relative to the base and
\* otherwise returns a boolean, True exactly when the parts of the path up
\* to its last occurrence of the final part of the base are a trailing run
\* of the parts of the base, False also when they are more than the base
\* has.
C28_OverlapBoolean ==
    path_result.op = "paths_overlap" =>
        IF RelativeTo(cached_file_path, setting_base_dir).ok
        THEN path_result.raised = "ValueError"
        ELSE /\ path_result.raised = "none"
             /\ path_result.how \in {"True", "False"}
             /\ path_result.how = "True" <=>
                   ExpectedOverlap(PartsOf(setting_base_dir),
                                   PartsOf(cached_file_path))

\* Every specification supplied, in the order of collection: environment,
\* command line, initialization.
Supplied == PresentEnvFiles \o PresentCliFiles \o initArgs

\* C27: self.settings never holds two records with the same raw string; a
\* string supplied again by a later origin is ignored, the first pass
\* collecting each string at the position of its first occurrence; two
\* different strings that resolve to one file are both kept, and both are
\* loaded and stored when the setup completes.
C27_UniqueByRawString ==
    /\ \A i, j \in DOMAIN settings :
          settings[i].file = settings[j].file => i = j
    /\ (passes = 1 /\ lastPass.raised # "EnvVarsNotFound") =>
          lastPass.collected = Dedup(Supplied)
    /\ (initialized /\ {"dev", "dev.py"} \subseteq Range(Supplied)) =>
          /\ {"dev", "dev.py"} \subseteq Range(Files(settings))
          /\ \A i \in DOMAIN settings :
                settings[i].file \in {"dev", "dev.py"} =>
                   /\ settings[i].stored
                   /\ DOMAIN settings[i].store = ModuleKeys("dev")

\* "dev" is given by the environment and again at initialization, "dev.py"
\* on the command line.
C27_Witness ==
    /\ initialized
    /\ PresentEnvFiles = << "dev" >>
    /\ PresentCliFiles = << "dev.py" >>
    /\ initArgs = << "dev3", "dev" >>
    /\ Files(settings) = << "dev", "dev.py", "dev3" >>
    /\ \A i \in DOMAIN settings : settings[i].stored

\* C26: the fields of a source are committed to the namespace at most once:
\* a pass fails with RuntimeError when it reaches a source already stored,
\* and load() on a source already stored fails with RuntimeError as well
\* instead of importing the module and populating the source again.
C26_CommittedOnce ==
    /\ lastPass.raised = "RuntimeError" =>
          \E i \in DOMAIN settings :
             /\ settings[i].stored
             /\ settings[i].file = lastPass.attempts[Len(lastPass.attempts)]
    /\ \A i \in DOMAIN settings :
          (settings[i].stored /\ base_dir # "nowhere") =>
             SettingLoad(settings[i]).raised = "RuntimeError"

\* The exception the first setup pass of the instance ends in ("none": it
\* completes), from the arguments of the instance.
FirstPassRaised ==
    IF Collect(<< >>, << >>).raised # "none"
    THEN Collect(<< >>, << >>).raised
    ELSE Load(Collect(<< >>, << >>).settings, EmptyStore,
              Collect(<< >>, << >>).warnings).raised

\* C30: while no setup pass has completed, every access made has failed
\* with the error of the first pass, the namespace holds no field and no
\* source is marked as stored.
C30_FailedPassLeavesNothing ==
    (accesses >= 1 /\ ~initialized) =>
        /\ result.raised = FirstPassRaised
        /\ store = EmptyStore
        /\ \A i \in DOMAIN settings : ~settings[i].stored
====
